---- MODULE Spec2Model ----
(***************************************************************************)
(* Unit-of-work transaction context of the NestJS / TypeORM sample:        *)
(* UnitOfWorkService (getManager, doTransactional,                         *)
(* doTransactionalCallHandler), TransactionStorageInterceptor, and the     *)
(* OrderController / OrderService / OrderRepository call chain that runs   *)
(* under it.  Several requests (logical executions) are in flight at once  *)
(* on one event loop; a step of the model is what one execution does       *)
(* between two suspension points (awaited database calls, awaited          *)
(* promises).                                                              *)
(***************************************************************************)
EXTENDS Integers, Sequences, FiniteSets, TLC

\* ---------------------------------------------------------------- bounds
NumExec == 2
MaxItems == 1

Execs == 1..NumExec

\* ------------------------------------------------------- program constants
\* Math.floor(Math.random() * 5) draws from 0 .. RandRange-1
RandRange == 5
\* saveOrderItem throws when rand <= RandThrowMax
RandThrowMax == 2

KEY == "typeOrmEntityManager"
Undefined == <<"undefined">>
Xablau == "xablau"
DownstreamError == "downstream"
NotFound == "EntityNotFound"

Routes == {"all", "getById", "firstWay", "secondWay"}
\* what the CallHandler's stream does once the route handler has returned:
\*   "handler"   emits the handler's value and completes
\*   "empty"     completes without emitting a value
\*   "lateError" a downstream stage raises after the handler returned
NextKinds == {"handler", "empty", "lateError"}

VARIABLES
    pc,         \* pc[e]: position of execution e
    route,      \* route[e]: the controller method the request was routed to
    dto,        \* dto[e]: number of items of the CreateOrderRequestDto
    id,         \* id[e]: the :id parameter of getById
    next,       \* next[e]: what the stream of next.handle() did (see NextKinds)
    item,       \* item[e]: number of items of dto[e] whose save was issued
    rands,      \* rands[e]: the throw / no-throw draws of saveOrderItem so far
    work,       \* work[e]: settlement of the route handler's createOrder
    callback,   \* callback[e]: settlement of the callback given to transaction()
    result,     \* result[e]: settlement of connection.transaction(...)
    outcome,    \* outcome[e]: what the caller of the controller method got
    svc,        \* svc[e]: position of OrderService.createOrder
    scope,      \* scope[e]: the AsyncLocalStorage stores entered around the
                \*   code of e that is running (innermost last)
    ctx,        \* ctx[e]: the stores the suspended createOrder carries with it
    txs,        \* txs[e]: transactions opened by e, in order
    defCount,   \* defCount[e]: default entity managers created for e
    committed,  \* committed rows of the database
    calls,      \* calls[e]: history of getManager() calls of e
    events,     \* events[e]: history of scope / transaction events of e
    nested      \* nested[e]: the doTransactional invocation that the work of
                \*   e's doTransactional makes itself (none on the routes of
                \*   OrderController): its position, the settlements of its
                \*   fn, callback and transaction, and the stores it entered

vars == <<pc, route, dto, id, next, item, rands, work, callback, result,
          outcome, svc, scope, ctx, txs, defCount, committed, calls, events,
          nested>>

\* ------------------------------------------------------------ settlements
\* A promise is pending, fulfilled with a value or rejected with a failure.
Pending == [st |-> "pending", val |-> Undefined]
Fulfilled(v) == [st |-> "ok", val |-> v]
Rejected(f) == [st |-> "err", val |-> <<"error", f>>]

OrderOf(e) == <<"order", e>>

\* ------------------------------------------------- Map<string, EntityManager>
\* A Map is a set of <<key, value>> pairs with at most one pair per key.
NewMap == {}
MapHas(m, k) == \E p \in m : p[1] = k
MapGet(m, k) == (CHOOSE p \in m : p[1] = k)[2]
MapSet(m, k, v) == {p \in m : p[1] # k} \cup {<<k, v>>}

\* ------------------------------------------------------ entity managers
\* The manager of the n-th transaction of execution e, and the n-th manager
\* made by connection.createEntityManager() on behalf of e.  Every manager
\* is a distinct object.
\* (variant) a transaction started while one is in progress joins it: its
\* callback gets the manager of the first
TxManagerJoin(e, n) == <<"tx", e, 1>>

TxManager(e, n) == <<"tx", e, n>>
IsTx(h) == h[1] = "tx"
IsDefault(h) == h[1] = "def"

\* state of the transaction behind a manager, in the transaction table t
TxStateIn(t, h) ==
    IF IsTx(h) /\ h[3] <= Len(t[h[2]]) THEN t[h[2]][h[3]].state ELSE "none"

\* AsyncLocalStorage.getStore(): the innermost store of the asynchronous
\* context the caller runs in, as a sequence of zero (undefined) or one
\* store.  stores is that context: the code of a call tree runs, also after
\* every suspension, in the context in which it was called.
\* (variant) one store shared by the whole process instead of one per
\* asynchronous context: whoever asks sees the store of an execution that
\* is inside one
getStoreGlobal(stores) ==
    LET active == {x \in Execs : scope[x] # <<>>}
        x == CHOOSE a \in active : \A b \in active : a >= b
    IN  IF active = {} THEN <<>> ELSE <<scope[x][Len(scope[x])]>>

getStore(stores) ==
    IF stores = <<>> THEN <<>> ELSE <<stores[Len(stores)]>>

\* (variant) the default manager is created once and kept
createEntityManagerOnce(e) == <<"def", e, 1>>

createEntityManager(e) == <<"def", e, defCount[e] + 1>>

\* (variant) the manager is kept in one field of the service instead of the
\* store of the running context: whoever asks while a transaction scope is
\* active gets that transaction's manager
getManagerShared(stores, e) ==
    LET active == {x \in Execs : scope[x] # <<>>}
        x == CHOOSE a \in active : \A b \in active : a <= b
    IN  IF active = {} THEN createEntityManager(e)
        ELSE MapGet(scope[x][Len(scope[x])], KEY)

\* (variant) the store is never consulted
getManagerDefault(stores, e) == createEntityManager(e)

getManager(stores, e) ==
    LET storage == getStore(stores)
    IN  IF storage # <<>> /\ MapHas(storage[1], KEY)
        THEN MapGet(getStore(stores)[1], KEY)
        ELSE createEntityManager(e)

\* ------------------------------------------------------------- database
\* A row remembers the request that wrote it and the unit of work (the
\* doTransactional* invocation <<e, n>>, n = 0 outside any) it was written in.
Row(kind, e, n, uow) == [kind |-> kind, order |-> e, n |-> n, uow |-> uow]

\* EntityManager.save through manager h: inside h's open transaction, or at
\* once (its own implicit transaction) through a default manager.  A manager
\* whose query runner was released cannot write.
SaveTxs(t, h, row) ==
    IF TxStateIn(t, h) = "Open"
    THEN [t EXCEPT ![h[2]][h[3]].writes = @ \cup {row}]
    ELSE t

\* (variant) a save takes effect at once through any manager, a
\* transaction's as well
SaveCommittedAtOnce(c, h, row) == c \cup {row}

SaveCommitted(c, h, row) ==
    IF IsDefault(h) THEN c \cup {row} ELSE c

SaveEvent(t, h, row) ==
    IF TxStateIn(t, h) = "Open" THEN <<"write", row.kind, row.n>>
    ELSE IF IsDefault(h) THEN <<"autocommit", row.kind, row.n>>
    ELSE <<"lost", row.kind, row.n>>

\* what a find through manager h sees: the committed rows and, inside an
\* open transaction, that transaction's own writes
Visible(t, c, h) ==
    IF TxStateIn(t, h) = "Open" THEN c \cup t[h[2]][h[3]].writes ELSE c

\* the doTransactional* invocation whose work execution e is running
CurInv(e) == <<e, Len(txs[e])>>

\* a getManager() call of e as recorded in calls[e]: the unit of work it was
\* made in, the manager returned, the state of that manager's transaction,
\* and, for a call outside any unit of work, whether another execution was
\* inside a store at that moment
Call(t, e, h) ==
    [uow |-> CurInv(e), h |-> h, st |-> TxStateIn(t, h),
     conc |-> Len(txs[e]) = 0 /\ \E x \in Execs \ {e} : scope[x] # <<>>]

DefCountAfter(e, h) ==
    [defCount EXCEPT ![e] = IF h = createEntityManager(e) THEN @ + 1 ELSE @]

NoNested ==
    [pc |-> "none", work |-> Pending, callback |-> Pending, result |-> Pending,
     stores |-> <<>>]

\* ------------------------------------------------------------------ Init
Init ==
    /\ pc = [e \in Execs |-> "idle"]
    /\ route = [e \in Execs |-> "none"]
    /\ dto = [e \in Execs |-> 0]
    /\ id = [e \in Execs |-> 0]
    /\ next = [e \in Execs |-> "none"]
    /\ item = [e \in Execs |-> 0]
    /\ rands = [e \in Execs |-> <<>>]
    /\ work = [e \in Execs |-> Pending]
    /\ callback = [e \in Execs |-> Pending]
    /\ result = [e \in Execs |-> Pending]
    /\ outcome = [e \in Execs |-> Pending]
    /\ svc = [e \in Execs |-> "none"]
    /\ scope = [e \in Execs |-> <<>>]
    /\ ctx = [e \in Execs |-> <<>>]
    /\ txs = [e \in Execs |-> <<>>]
    /\ defCount = [e \in Execs |-> 0]
    /\ committed = {}
    /\ calls = [e \in Execs |-> <<>>]
    /\ events = [e \in Execs |-> <<>>]
    /\ nested = [e \in Execs |-> NoNested]

\* the manager the last getManager() call of e returned
LastManager(e) == calls[e][Len(calls[e])].h

\* ------------------------------------------------------- read-only routes
\* OrderController.all -> OrderService.getAll -> OrderRepository.getAll:
\* getManager().find(Order) is issued.
all(e) ==
    /\ pc[e] = "idle"
    /\ LET h == getManager(scope[e], e)
       IN  /\ calls' = [calls EXCEPT ![e] = Append(@, Call(txs, e, h))]
           /\ defCount' = DefCountAfter(e, h)
    /\ route' = [route EXCEPT ![e] = "all"]
    /\ pc' = [pc EXCEPT ![e] = "find"]
    /\ UNCHANGED <<dto, id, next, item, rands, work, callback, result, outcome,
                   svc, scope, ctx, txs, committed, events>>
    /\ UNCHANGED nested

\* the find completes and its rows are returned to the caller
find(e) ==
    /\ pc[e] = "find"
    /\ LET rows == Visible(txs, committed, LastManager(e))
       IN  outcome' = [outcome EXCEPT ![e] =
               Fulfilled(<<"orders", {r.order : r \in {x \in rows : x.kind = "order"}}>>)]
    /\ pc' = [pc EXCEPT ![e] = "done"]
    /\ UNCHANGED <<route, dto, id, next, item, rands, work, callback, result,
                   svc, scope, ctx, txs, defCount, committed, calls, events>>
    /\ UNCHANGED nested

\* OrderController.getById -> OrderService.getById -> OrderRepository.getById:
\* getManager().findOneOrFail(Order, idOrder) is issued.
getById(e, idOrder) ==
    /\ pc[e] = "idle"
    /\ LET h == getManager(scope[e], e)
       IN  /\ calls' = [calls EXCEPT ![e] = Append(@, Call(txs, e, h))]
           /\ defCount' = DefCountAfter(e, h)
    /\ route' = [route EXCEPT ![e] = "getById"]
    /\ id' = [id EXCEPT ![e] = idOrder]
    /\ pc' = [pc EXCEPT ![e] = "findOneOrFail"]
    /\ UNCHANGED <<dto, next, item, rands, work, callback, result, outcome,
                   svc, scope, ctx, txs, committed, events>>
    /\ UNCHANGED nested

\* the lookup completes: the order, or a NotFound-class failure
findOneOrFail(e) ==
    /\ pc[e] = "findOneOrFail"
    /\ LET rows == Visible(txs, committed, LastManager(e))
       IN  outcome' = [outcome EXCEPT ![e] =
               IF \E r \in rows : r.kind = "order" /\ r.order = id[e]
               THEN Fulfilled(OrderOf(id[e]))
               ELSE Rejected(NotFound)]
    /\ pc' = [pc EXCEPT ![e] = "done"]
    /\ UNCHANGED <<route, dto, id, next, item, rands, work, callback, result,
                   svc, scope, ctx, txs, defCount, committed, calls, events>>
    /\ UNCHANGED nested

\* ------------------------------------------------- transactional routes
\* connection.transaction(cb): a query runner is created and BEGIN is sent;
\* the transaction exists but is not open yet.
transaction(e) ==
    /\ txs' = [txs EXCEPT ![e] = Append(@, [state |-> "Idle", writes |-> {}])]
    /\ pc' = [pc EXCEPT ![e] = "startTransaction"]

\* OrderController.createFirstWay: calls unitOfWork.doTransactional(fn),
\* which calls connection.transaction.
createFirstWay(e, orderDto) ==
    /\ pc[e] = "idle"
    /\ route' = [route EXCEPT ![e] = "firstWay"]
    /\ dto' = [dto EXCEPT ![e] = orderDto]
    /\ transaction(e)
    /\ UNCHANGED <<id, next, item, rands, work, callback, result, outcome,
                   svc, scope, ctx, defCount, committed, calls, events>>
    /\ UNCHANGED nested

\* POST secondWay: TransactionStorageInterceptor.intercept(context, next)
\* calls uow.doTransactionalCallHandler(next), which calls
\* connection.transaction.
intercept(e, orderDto) ==
    /\ pc[e] = "idle"
    /\ route' = [route EXCEPT ![e] = "secondWay"]
    /\ dto' = [dto EXCEPT ![e] = orderDto]
    /\ transaction(e)
    /\ UNCHANGED <<id, next, item, rands, work, callback, result, outcome,
                   svc, scope, ctx, defCount, committed, calls, events>>
    /\ UNCHANGED nested

\* asyncLocalStorage.run(new Map(), cb) followed by
\* getStore().set('typeOrmEntityManager', manager): the context the callback
\* runs in once it has bound the manager, entered from the context stores
\* (variant) the store is entered but the manager is never set in it
runNoBind(stores, manager) == Append(stores, NewMap)

run(stores, manager) ==
    Append(stores, MapSet(NewMap, KEY, manager))

\* OrderService.createOrder up to its first await: the order is built and
\* orderRepository.saveOrder(order) = getManager().save(order) is issued.
\* stores is the context createOrder is called in, t the transactions at
\* that moment, ev the events that led to the call.
createOrderStart(stores, t, e, ev) ==
    LET h == getManager(stores, e)
        row == Row("order", e, 0, CurInv(e))
    IN  /\ calls' = [calls EXCEPT ![e] = Append(@, Call(t, e, h))]
        /\ defCount' = DefCountAfter(e, h)
        /\ txs' = SaveTxs(t, h, row)
        /\ committed' = SaveCommitted(committed, h, row)
        /\ events' = [events EXCEPT ![e] = (@ \o ev) \o <<SaveEvent(t, h, row)>>]
        /\ item' = [item EXCEPT ![e] = 0]
        /\ ctx' = [ctx EXCEPT ![e] = stores]
        /\ svc' = [svc EXCEPT ![e] = "createOrder"]

\* BEGIN has completed: the transaction is open and TypeORM calls the
\* callback with the transaction's manager
Opened(t, e) == [t EXCEPT ![e][Len(t[e])].state = "Open"]

\* doTransactional, lines 27-31: the callback of connection.transaction runs:
\* a new store is entered, the manager bound, and fn(manager) is called,
\* which runs createOrder up to its first await.
doTransactional(e) ==
    /\ pc[e] = "startTransaction"
    /\ route[e] = "firstWay"
    /\ LET t == Opened(txs, e)
           stores == run(scope[e], TxManager(e, Len(txs[e])))
       IN  /\ scope' = [scope EXCEPT ![e] = stores]
           /\ createOrderStart(stores, t, e, <<<<"open">>, <<"scope">>, <<"bind">>>>)
    /\ pc' = [pc EXCEPT ![e] = "callback"]
    /\ UNCHANGED <<route, dto, id, next, rands, work, callback, result, outcome>>
    /\ UNCHANGED nested

\* doTransactionalCallHandler, lines 38-42: the same, but the work is
\* fn.handle().toPromise(): subscribing runs the route handler
\* createSecondWay, which runs createOrder up to its first await.
doTransactionalCallHandler(e) ==
    /\ pc[e] = "startTransaction"
    /\ route[e] = "secondWay"
    /\ LET t == Opened(txs, e)
           stores == run(scope[e], TxManager(e, Len(txs[e])))
       IN  /\ scope' = [scope EXCEPT ![e] = stores]
           /\ createOrderStart(stores, t, e, <<<<"open">>, <<"scope">>, <<"bind">>>>)
    /\ pc' = [pc EXCEPT ![e] = "callback"]
    /\ UNCHANGED <<route, dto, id, next, rands, work, callback, result, outcome>>
    /\ UNCHANGED nested

\* OrderRepository.saveOrderItem: the random failure injection
Throws(rand) == rand <= RandThrowMax

\* (variant) the repository keeps the manager saveOrder obtained and
\* saveOrderItem saves through it, without asking getManager() again
createOrderCached(e) ==
    /\ svc[e] = "createOrder"
    /\ IF item[e] < dto[e]
       THEN \E rand \in 0..(RandRange - 1) :
              /\ rands' = [rands EXCEPT ![e] = Append(@, Throws(rand))]
              /\ IF Throws(rand)
                 THEN /\ work' = [work EXCEPT ![e] = Rejected(Xablau)]
                      /\ svc' = [svc EXCEPT ![e] = "end"]
                      /\ ctx' = [ctx EXCEPT ![e] = <<>>]
                      /\ UNCHANGED <<item, txs, committed, events>>
                 ELSE LET h == LastManager(e)
                          row == Row("item", e, item[e] + 1, CurInv(e))
                      IN  /\ txs' = SaveTxs(txs, h, row)
                          /\ committed' = SaveCommitted(committed, h, row)
                          /\ events' = [events EXCEPT ![e] =
                                            Append(@, SaveEvent(txs, h, row))]
                          /\ item' = [item EXCEPT ![e] = @ + 1]
                          /\ UNCHANGED <<work, svc, ctx>>
       ELSE /\ work' = [work EXCEPT ![e] = Fulfilled(OrderOf(e))]
            /\ svc' = [svc EXCEPT ![e] = "end"]
            /\ ctx' = [ctx EXCEPT ![e] = <<>>]
            /\ UNCHANGED <<item, rands, txs, committed, events>>
    /\ UNCHANGED <<pc, route, dto, id, next, callback, result, outcome, scope,
                   calls, defCount, nested>>

\* OrderService.createOrder resumes after an awaited save: the next item is
\* saved through saveOrderItem (which may throw before it touches the
\* database), or, after the last item, the order is returned.
createOrder(e) ==
    /\ svc[e] = "createOrder"
    /\ IF item[e] < dto[e]
       THEN \E rand \in 0..(RandRange - 1) :
              /\ rands' = [rands EXCEPT ![e] = Append(@, Throws(rand))]
              /\ IF Throws(rand)
                 THEN /\ work' = [work EXCEPT ![e] = Rejected(Xablau)]
                      /\ svc' = [svc EXCEPT ![e] = "end"]
                      /\ ctx' = [ctx EXCEPT ![e] = <<>>]
                      /\ UNCHANGED <<item, txs, committed, calls, defCount, events>>
                 ELSE LET h == getManager(ctx[e], e)
                          row == Row("item", e, item[e] + 1, CurInv(e))
                      IN  /\ calls' = [calls EXCEPT ![e] = Append(@, Call(txs, e, h))]
                          /\ defCount' = DefCountAfter(e, h)
                          /\ txs' = SaveTxs(txs, h, row)
                          /\ committed' = SaveCommitted(committed, h, row)
                          /\ events' = [events EXCEPT ![e] =
                                            Append(@, SaveEvent(txs, h, row))]
                          /\ item' = [item EXCEPT ![e] = @ + 1]
                          /\ UNCHANGED <<work, svc, ctx>>
       ELSE /\ work' = [work EXCEPT ![e] = Fulfilled(OrderOf(e))]
            /\ svc' = [svc EXCEPT ![e] = "end"]
            /\ ctx' = [ctx EXCEPT ![e] = <<>>]
            /\ UNCHANGED <<item, rands, txs, committed, calls, defCount, events>>
    /\ UNCHANGED <<pc, route, dto, id, next, callback, result, outcome, scope>>
    /\ UNCHANGED nested

\* ---------------------------------------------------------- observables
\* An Observable as it plays out: the values it emits, then how it ends.
Complete == <<"complete">>

\* CallHandler.handle(): the stream of the rest of request processing, given
\* the settlement w of the route handler and what the stream does afterwards
handle(w, nextKind) ==
    IF w.st = "err" THEN [emits |-> <<>>, end |-> w.val]
    ELSE IF nextKind = "handler" THEN [emits |-> <<w.val>>, end |-> Complete]
    ELSE IF nextKind = "empty" THEN [emits |-> <<>>, end |-> Complete]
    ELSE [emits |-> <<w.val>>, end |-> <<"error", DownstreamError>>]

\* (variant) settles with the first value emitted, as first() would, without
\* waiting for the stream to end
toPromiseFirst(obs) ==
    IF obs.emits # <<>> THEN Fulfilled(obs.emits[1])
    ELSE IF obs.end = Complete THEN Fulfilled(Undefined)
    ELSE [st |-> "err", val |-> obs.end]

\* Observable.toPromise(): settles when the stream ends, with the last value
\* (undefined if there was none) or with the stream's error
toPromise(obs) ==
    IF obs.end = Complete
    THEN Fulfilled(IF obs.emits = <<>> THEN Undefined ELSE obs.emits[Len(obs.emits)])
    ELSE [st |-> "err", val |-> obs.end]

\* `response = await fn(manager); ... return response`: the settlement of the
\* transaction callback of doTransactional, given fn's settlement
\* (variant) the callback forgets `return response`
awaitFnNoReturn(w) == IF w.st = "err" THEN w ELSE Fulfilled(Undefined)

\* (variant) the callback catches the failure of fn and carries on
awaitFnSwallow(w) == Fulfilled(IF w.st = "err" THEN Undefined ELSE w.val)

awaitFn(w) == IF w.st = "err" THEN w ELSE Fulfilled(w.val)

\* (variant) the promise is not awaited
notAwaited(w) == TRUE

\* (variant) the continuation is attached with then(onFulfilled) alone: a
\* rejection resumes nothing
awaitedFulfilled(w) == w.st = "ok"

\* `await p` resumes once p has settled
awaited(w) == w.st # "pending"

\* (variant) the callback forgets `return response`
awaitHandleNoReturn(w, nextKind) ==
    IF toPromise(handle(w, nextKind)).st = "err"
    THEN toPromise(handle(w, nextKind))
    ELSE Fulfilled(Undefined)

\* `response = await fn.handle().toPromise(); ... return response`
awaitHandle(w, nextKind) == toPromise(handle(w, nextKind))

\* (variant) the store is left only when the callback returned normally
leaveOnSuccess(e, cb) ==
    /\ scope' = [scope EXCEPT ![e] =
                    IF cb.st = "ok" THEN SubSeq(@, 1, Len(@) - 1) ELSE @]
    /\ events' = [events EXCEPT ![e] =
                     IF cb.st = "ok" THEN Append(@, <<"teardown">>) ELSE @]
    /\ callback' = [callback EXCEPT ![e] = cb]
    /\ pc' = [pc EXCEPT ![e] =
                 IF cb.st = "ok" THEN "commitTransaction" ELSE "rollbackTransaction"]

\* the callback given to asyncLocalStorage.run has settled: its store is
\* left, and the transaction callback settles with cb; TypeORM then sends
\* COMMIT or ROLLBACK
leave(e, cb) ==
    /\ scope' = [scope EXCEPT ![e] = SubSeq(@, 1, Len(@) - 1)]
    /\ events' = [events EXCEPT ![e] = Append(@, <<"teardown">>)]
    /\ callback' = [callback EXCEPT ![e] = cb]
    /\ pc' = [pc EXCEPT ![e] =
                 IF cb.st = "ok" THEN "commitTransaction" ELSE "rollbackTransaction"]

\* doTransactional, lines 31-33, resumed when fn's promise has settled
doTransactionalResume(e) ==
    /\ pc[e] = "callback"
    /\ route[e] \in {"firstWay", "nested"}
    /\ awaited(work[e])
    /\ leave(e, awaitFn(work[e]))
    /\ UNCHANGED <<route, dto, id, next, item, rands, work, result, outcome,
                   svc, ctx, txs, defCount, committed, calls>>
    /\ UNCHANGED nested

\* doTransactionalCallHandler, lines 42-44, resumed when the promise of
\* fn.handle().toPromise() has settled.  nextKind is what the stream of
\* next.handle() did after the route handler returned; a handler that raised
\* ends the stream with its failure, whatever is downstream.
doTransactionalCallHandlerResume(e, nextKind) ==
    /\ pc[e] = "callback"
    /\ route[e] = "secondWay"
    /\ awaited(work[e])
    /\ work[e].st = "err" => nextKind = "handler"
    /\ next' = [next EXCEPT ![e] = nextKind]
    /\ leave(e, awaitHandle(work[e], nextKind))
    /\ UNCHANGED <<route, dto, id, item, rands, work, result, outcome,
                   svc, ctx, txs, defCount, committed, calls>>
    /\ UNCHANGED nested

\* connection.transaction after the callback returned normally: COMMIT, the
\* query runner is released, the promise fulfils with the callback's value
commitTransaction(e) ==
    /\ pc[e] = "commitTransaction"
    /\ committed' = committed \cup txs[e][1].writes
    /\ txs' = [txs EXCEPT ![e][1].state = "Committed"]
    /\ events' = [events EXCEPT ![e] = Append(@, <<"commit">>)]
    /\ result' = [result EXCEPT ![e] = callback[e]]
    /\ pc' = [pc EXCEPT ![e] = "return"]
    /\ UNCHANGED <<route, dto, id, next, item, rands, work, callback, outcome,
                   svc, scope, ctx, defCount, calls>>
    /\ UNCHANGED nested

\* connection.transaction after the callback raised: ROLLBACK, the query
\* runner is released, the promise rejects with the callback's failure
rollbackTransaction(e) ==
    /\ pc[e] = "rollbackTransaction"
    /\ txs' = [txs EXCEPT ![e][1].state = "RolledBack"]
    /\ events' = [events EXCEPT ![e] = Append(@, <<"rollback">>)]
    /\ result' = [result EXCEPT ![e] = callback[e]]
    /\ pc' = [pc EXCEPT ![e] = "return"]
    /\ UNCHANGED <<route, dto, id, next, item, rands, work, callback, outcome,
                   svc, scope, ctx, defCount, committed, calls>>
    /\ UNCHANGED nested

\* `return await this.connection.transaction(...)`: doTransactional* settles
\* as the transaction did, and so does the controller method / interceptor
\* towards its caller
return(e) ==
    /\ pc[e] = "return"
    /\ outcome' = [outcome EXCEPT ![e] = result[e]]
    /\ pc' = [pc EXCEPT ![e] = "done"]
    /\ UNCHANGED <<route, dto, id, next, item, rands, work, callback, result,
                   svc, scope, ctx, txs, defCount, committed, calls, events>>
    /\ UNCHANGED nested

\* --------------------------------------- callers other than the routes
\* doTransactional takes any fn, and createOrder can be called by anyone.
\* Two callers that OrderController does not have exercise what the routes
\* cannot: createOrder called outside doTransactional, and a doTransactional
\* whose fn calls doTransactional again:
\*   doTransactional(async () => {
\*     await getManager().save(a);
\*     try { await doTransactional(async () => {
\*             await getManager().save(b); [throw] }) } catch { [rethrow] }
\*     await getManager().save(c); [throw] })
\*   getManager()
InnerError == "innerFailure"
OuterError == "outerFailure"

\* a getManager() call made in unit of work <<e, n>> (n = 0: in none)
CallIn(t, e, h, n) ==
    [uow |-> <<e, n>>, h |-> h, st |-> TxStateIn(t, h),
     conc |-> n = 0 /\ \E x \in Execs \ {e} : scope[x] # <<>>]

\* createOrder is called directly, as createSecondWay would without its
\* interceptor: no store is active around it.
createOrderDirect(e, orderDto) ==
    /\ pc[e] = "idle"
    /\ route' = [route EXCEPT ![e] = "direct"]
    /\ dto' = [dto EXCEPT ![e] = orderDto]
    /\ createOrderStart(scope[e], txs, e, <<>>)
    /\ pc' = [pc EXCEPT ![e] = "direct"]
    /\ UNCHANGED <<id, next, rands, work, callback, result, outcome, scope, nested>>

\* the caller's await of createOrder resumes
createOrderDirectReturn(e) ==
    /\ pc[e] = "direct"
    /\ awaited(work[e])
    /\ outcome' = [outcome EXCEPT ![e] = work[e]]
    /\ pc' = [pc EXCEPT ![e] = "done"]
    /\ UNCHANGED <<route, dto, id, next, item, rands, work, callback, result,
                   svc, scope, ctx, txs, defCount, committed, calls, events, nested>>

\* a caller calls doTransactional with the fn above
nestedRequest(e) ==
    /\ pc[e] = "idle"
    /\ route' = [route EXCEPT ![e] = "nested"]
    /\ transaction(e)
    /\ UNCHANGED <<dto, id, next, item, rands, work, callback, result, outcome,
                   svc, scope, ctx, defCount, committed, calls, events, nested>>

\* doTransactional, lines 27-31, for that fn: the transaction is open, a new
\* store is entered, the manager bound, and fn runs up to its first await,
\* getManager().save(a)
doTransactionalOuter(e) ==
    /\ pc[e] = "startTransaction"
    /\ route[e] = "nested"
    /\ LET t == Opened(txs, e)
           stores == run(scope[e], TxManager(e, Len(txs[e])))
           h == getManager(stores, e)
           row == Row("a", e, 0, <<e, 1>>)
       IN  /\ scope' = [scope EXCEPT ![e] = stores]
           /\ ctx' = [ctx EXCEPT ![e] = stores]
           /\ calls' = [calls EXCEPT ![e] = Append(@, CallIn(t, e, h, 1))]
           /\ defCount' = DefCountAfter(e, h)
           /\ txs' = SaveTxs(t, h, row)
           /\ committed' = SaveCommitted(committed, h, row)
           /\ events' = [events EXCEPT ![e] =
                  @ \o <<<<"open">>, <<"scope">>, <<"bind">>, SaveEvent(t, h, row)>>]
    /\ svc' = [svc EXCEPT ![e] = "a"]
    /\ pc' = [pc EXCEPT ![e] = "callback"]
    /\ UNCHANGED <<route, dto, id, next, item, rands, work, callback, result,
                   outcome, nested>>

\* fn resumes after save(a) and calls doTransactional again, which calls
\* connection.transaction: a second query runner, BEGIN is sent
fnCallsDoTransactional(e) ==
    /\ svc[e] = "a"
    /\ txs' = [txs EXCEPT ![e] = Append(@, [state |-> "Idle", writes |-> {}])]
    /\ nested' = [nested EXCEPT ![e].pc = "startTransaction"]
    /\ svc' = [svc EXCEPT ![e] = "awaitNested"]
    /\ UNCHANGED <<pc, route, dto, id, next, item, rands, work, callback, result,
                   outcome, scope, ctx, defCount, committed, calls, events>>

\* (variant) the nested invocation enters its store with enterWith, which
\* replaces the store of the calling context instead of running the callback
\* in a context of its own
doTransactionalNestedEnterWith(e) ==
    /\ nested[e].pc = "startTransaction"
    /\ LET t == Opened(txs, e)
           stores == run(ctx[e], TxManager(e, Len(txs[e])))
           h == getManager(stores, e)
           row == Row("b", e, 0, <<e, 2>>)
       IN  /\ nested' = [nested EXCEPT ![e].pc = "callback", ![e].stores = stores]
           /\ ctx' = [ctx EXCEPT ![e] = stores]
           /\ calls' = [calls EXCEPT ![e] = Append(@, CallIn(t, e, h, 2))]
           /\ defCount' = DefCountAfter(e, h)
           /\ txs' = SaveTxs(t, h, row)
           /\ committed' = SaveCommitted(committed, h, row)
           /\ events' = [events EXCEPT ![e] =
                  @ \o <<<<"open", 2>>, <<"scope", 2>>, <<"bind", 2>>, SaveEvent(t, h, row)>>]
    /\ UNCHANGED <<pc, route, dto, id, next, item, rands, work, callback, result,
                   outcome, svc, scope>>

\* doTransactional, lines 27-31, of the nested invocation: its transaction
\* is open; a new store is entered from the context of the calling fn, the
\* new manager bound, and the nested fn runs up to getManager().save(b)
doTransactionalNested(e) ==
    /\ nested[e].pc = "startTransaction"
    /\ LET t == Opened(txs, e)
           stores == run(ctx[e], TxManager(e, Len(txs[e])))
           h == getManager(stores, e)
           row == Row("b", e, 0, <<e, 2>>)
       IN  /\ nested' = [nested EXCEPT ![e].pc = "callback", ![e].stores = stores]
           /\ calls' = [calls EXCEPT ![e] = Append(@, CallIn(t, e, h, 2))]
           /\ defCount' = DefCountAfter(e, h)
           /\ txs' = SaveTxs(t, h, row)
           /\ committed' = SaveCommitted(committed, h, row)
           /\ events' = [events EXCEPT ![e] =
                  @ \o <<<<"open", 2>>, <<"scope", 2>>, <<"bind", 2>>, SaveEvent(t, h, row)>>]
    /\ UNCHANGED <<pc, route, dto, id, next, item, rands, work, callback, result,
                   outcome, svc, scope, ctx>>

\* the nested fn resumes after save(b): it raises or returns
fnNested(e, throws) ==
    /\ nested[e].pc = "callback"
    /\ nested[e].work = Pending
    /\ nested' = [nested EXCEPT ![e].work =
                      IF throws THEN Rejected(InnerError) ELSE Fulfilled(<<"b", e>>)]
    /\ UNCHANGED <<pc, route, dto, id, next, item, rands, work, callback, result,
                   outcome, svc, scope, ctx, txs, defCount, committed, calls, events>>

\* doTransactional, lines 31-33, of the nested invocation: its store is left
\* and its transaction callback settles
doTransactionalNestedResume(e) ==
    /\ nested[e].pc = "callback"
    /\ awaited(nested[e].work)
    /\ LET cb == awaitFn(nested[e].work)
       IN  nested' = [nested EXCEPT
               ![e].stores = SubSeq(@, 1, Len(@) - 1),
               ![e].callback = cb,
               ![e].pc = IF cb.st = "ok" THEN "commitTransaction"
                         ELSE "rollbackTransaction"]
    /\ events' = [events EXCEPT ![e] = Append(@, <<"teardown", 2>>)]
    /\ UNCHANGED <<pc, route, dto, id, next, item, rands, work, callback, result,
                   outcome, svc, scope, ctx, txs, defCount, committed, calls>>

\* connection.transaction of the nested invocation: COMMIT
commitNested(e) ==
    /\ nested[e].pc = "commitTransaction"
    /\ committed' = committed \cup txs[e][2].writes
    /\ txs' = [txs EXCEPT ![e][2].state = "Committed"]
    /\ events' = [events EXCEPT ![e] = Append(@, <<"commit", 2>>)]
    /\ nested' = [nested EXCEPT ![e].result = nested[e].callback, ![e].pc = "return"]
    /\ UNCHANGED <<pc, route, dto, id, next, item, rands, work, callback, result,
                   outcome, svc, scope, ctx, defCount, calls>>

\* connection.transaction of the nested invocation: ROLLBACK
rollbackNested(e) ==
    /\ nested[e].pc = "rollbackTransaction"
    /\ txs' = [txs EXCEPT ![e][2].state = "RolledBack"]
    /\ events' = [events EXCEPT ![e] = Append(@, <<"rollback", 2>>)]
    /\ nested' = [nested EXCEPT ![e].result = nested[e].callback, ![e].pc = "return"]
    /\ UNCHANGED <<pc, route, dto, id, next, item, rands, work, callback, result,
                   outcome, svc, scope, ctx, defCount, committed, calls>>

\* the calling fn resumes from `await doTransactional(...)`: a failure is
\* rethrown or caught; otherwise fn goes on to getManager().save(c)
fnResume(e, catches) ==
    /\ svc[e] = "awaitNested"
    /\ nested[e].pc = "return"
    /\ nested' = [nested EXCEPT ![e].pc = "done"]
    /\ IF nested[e].result.st = "err" /\ ~catches
       THEN /\ work' = [work EXCEPT ![e] = nested[e].result]
            /\ svc' = [svc EXCEPT ![e] = "end"]
            /\ ctx' = [ctx EXCEPT ![e] = <<>>]
            /\ UNCHANGED <<txs, committed, calls, defCount, events>>
       ELSE LET h == getManager(ctx[e], e)
                row == Row("c", e, 0, <<e, 1>>)
            IN  /\ calls' = [calls EXCEPT ![e] = Append(@, CallIn(txs, e, h, 1))]
                /\ defCount' = DefCountAfter(e, h)
                /\ txs' = SaveTxs(txs, h, row)
                /\ committed' = SaveCommitted(committed, h, row)
                /\ events' = [events EXCEPT ![e] = Append(@, SaveEvent(txs, h, row))]
                /\ svc' = [svc EXCEPT ![e] = "c"]
                /\ UNCHANGED <<work, ctx>>
    /\ UNCHANGED <<pc, route, dto, id, next, item, rands, callback, result,
                   outcome, scope>>

\* the calling fn resumes after save(c): it raises or returns
fnEnd(e, throws) ==
    /\ svc[e] = "c"
    /\ work' = [work EXCEPT ![e] =
                    IF throws THEN Rejected(OuterError) ELSE Fulfilled(<<"c", e>>)]
    /\ svc' = [svc EXCEPT ![e] = "end"]
    /\ ctx' = [ctx EXCEPT ![e] = <<>>]
    /\ UNCHANGED <<pc, route, dto, id, next, item, rands, callback, result,
                   outcome, scope, txs, defCount, committed, calls, events, nested>>

\* after its doTransactional has settled, the caller asks for the manager
callerGetManager(e) ==
    /\ pc[e] = "done"
    /\ route[e] = "nested"
    /\ LET h == getManager(scope[e], e)
       IN  /\ calls' = [calls EXCEPT ![e] = Append(@, CallIn(txs, e, h, 0))]
           /\ defCount' = DefCountAfter(e, h)
    /\ pc' = [pc EXCEPT ![e] = "after"]
    /\ UNCHANGED <<route, dto, id, next, item, rands, work, callback, result,
                   outcome, svc, scope, ctx, txs, committed, events, nested>>

\* ------------------------------------------------------------------ Next
Next ==
    \E e \in Execs :
        \/ all(e)
        \/ find(e)
        \/ \E idOrder \in Execs : getById(e, idOrder)
        \/ findOneOrFail(e)
        \/ \E orderDto \in 0..MaxItems : createFirstWay(e, orderDto)
        \/ \E orderDto \in 0..MaxItems : intercept(e, orderDto)
        \/ doTransactional(e)
        \/ doTransactionalCallHandler(e)
        \/ createOrder(e)
        \/ doTransactionalResume(e)
        \/ \E nextKind \in NextKinds : doTransactionalCallHandlerResume(e, nextKind)
        \/ commitTransaction(e)
        \/ rollbackTransaction(e)
        \/ return(e)

Spec == Init /\ [][Next]_vars

\* What the runtime does on its own once a request is in: the database
\* answers BEGIN, each query, COMMIT and ROLLBACK, and the event loop runs
\* the continuation of every settled promise.  The arrival of a request is
\* not forced.
Continue(e) ==
    \/ find(e)
    \/ findOneOrFail(e)
    \/ doTransactional(e)
    \/ doTransactionalCallHandler(e)
    \/ createOrder(e)
    \/ doTransactionalResume(e)
    \/ \E nextKind \in NextKinds : doTransactionalCallHandlerResume(e, nextKind)
    \/ commitTransaction(e)
    \/ rollbackTransaction(e)
    \/ return(e)

FairSpec == Spec /\ \A e \in Execs : WF_vars(Continue(e))

\* the callers other than the routes, alone or beside each other
NextCallers ==
    \E e \in Execs :
        \/ \E orderDto \in 0..MaxItems : createOrderDirect(e, orderDto)
        \/ createOrder(e)
        \/ createOrderDirectReturn(e)
        \/ nestedRequest(e)
        \/ doTransactionalOuter(e)
        \/ fnCallsDoTransactional(e)
        \/ doTransactionalNested(e)
        \/ \E throws \in BOOLEAN : fnNested(e, throws)
        \/ doTransactionalNestedResume(e)
        \/ commitNested(e)
        \/ rollbackNested(e)
        \/ \E catches \in BOOLEAN : fnResume(e, catches)
        \/ \E throws \in BOOLEAN : fnEnd(e, throws)
        \/ doTransactionalResume(e)
        \/ commitTransaction(e)
        \/ rollbackTransaction(e)
        \/ return(e)
        \/ callerGetManager(e)

SpecCallers == Init /\ [][NextCallers]_vars

\* =================================================================== claims
TxRoutes == {"firstWay", "secondWay"}

\* the rows of unit of work <<e, n>> that are committed
CommittedOf(e, n) == {r \in committed : r.uow = <<e, n>>}

\* C1 (Atomicity): when the work enclosed by doTransactional /
\* doTransactionalCallHandler has failed, none of the writes it made through
\* getManager() is in the committed state, and once the invocation has
\* settled its transaction is rolled back.
C1_Atomicity ==
    \A e \in Execs : \A n \in 1..Len(txs[e]) :
        callback[e].st = "err" =>
            /\ CommittedOf(e, n) = {}
            /\ pc[e] \in {"return", "done"} => txs[e][n].state = "RolledBack"

\* a unit of work that failed after at least one write has settled
C1_Witness ==
    \E e \in Execs :
        /\ pc[e] = "done"
        /\ route[e] = "firstWay"
        /\ work[e] = Rejected(Xablau)
        /\ txs[e][1].writes # {}
        /\ txs[e][1].state = "RolledBack"

\* C2 (Isolation): a getManager() call of one execution never returns the
\* manager of a transaction opened by another execution.
C2_Isolation ==
    \A e \in Execs : \A i \in 1..Len(calls[e]) :
        IsTx(calls[e][i].h) => calls[e][i].h[2] = e

\* two units of work are in flight together, each resumed after a suspension
\* and each having asked for the manager again
C2_Witness ==
    \E a, b \in Execs :
        /\ a # b
        /\ svc[a] = "createOrder" /\ svc[b] = "createOrder"
        /\ item[a] >= 1 /\ item[b] >= 1
        /\ Len(calls[a]) >= 2 /\ Len(calls[b]) >= 2
        /\ txs[a][1].state = "Open" /\ txs[b][1].state = "Open"

\* C3 (Same handle throughout): every getManager() call made by the work of
\* the n-th doTransactional* invocation of e returns the manager of the
\* transaction that invocation opened, never a default manager.
C3_SameHandle ==
    \A e \in Execs : \A i \in 1..Len(calls[e]) :
        calls[e][i].uow[2] >= 1 =>
            calls[e][i].h = TxManager(e, calls[e][i].uow[2])

\* a unit of work has completed after asking for the manager before and
\* after a suspension
C3_Witness ==
    \E e \in Execs :
        /\ route[e] \in TxRoutes
        /\ svc[e] = "end"
        /\ Len(calls[e]) >= 2
        /\ \A i \in 1..Len(calls[e]) : calls[e][i].h = TxManager(e, 1)

Count(seq, x) == Cardinality({i \in DOMAIN seq : seq[i] = x})

\* the rows createOrder writes for request e when it runs to its end
ExpectedRows(e) ==
    {Row("order", e, 0, <<e, 1>>)} \cup {Row("item", e, i, <<e, 1>>) : i \in 1..dto[e]}

\* C4 (Commit on success): when the work given to doTransactional returns
\* normally with v, the transaction is committed exactly once and never
\* rolled back, every row the work wrote through getManager() is committed,
\* and the caller receives v, and only once the commit has happened.
C4_CommitOnSuccess ==
    \A e \in Execs :
        (route[e] = "firstWay" /\ work[e].st = "ok") =>
            /\ outcome[e].st # "pending" =>
                   outcome[e] = work[e] /\ txs[e][1].state = "Committed"
            /\ pc[e] \in {"return", "done"} =>
                   /\ txs[e][1].state = "Committed"
                   /\ Count(events[e], <<"commit">>) = 1
                   /\ Count(events[e], <<"rollback">>) = 0
                   /\ ExpectedRows(e) \subseteq committed
            /\ pc[e] = "done" => outcome[e] = Fulfilled(OrderOf(e))
            /\ txs[e][1].state # "Committed" => CommittedOf(e, 1) = {}

\* a doTransactional whose work wrote the order and an item has returned
C4_Witness ==
    \E e \in Execs :
        /\ route[e] = "firstWay"
        /\ pc[e] = "done"
        /\ dto[e] >= 1
        /\ outcome[e] = Fulfilled(OrderOf(e))
        /\ Cardinality(CommittedOf(e, 1)) >= 2

\* the work of a transactional route has raised: in createOrder, or in the
\* stream of next.handle() after the route handler returned
Failed(e) ==
    route[e] \in TxRoutes /\ (work[e].st = "err" \/ next[e] = "lateError")

TheFailure(e) == IF work[e].st = "err" THEN work[e] ELSE Rejected(DownstreamError)

\* C5 (Failure propagation): a failure raised inside the work of
\* doTransactional / doTransactionalCallHandler is never turned into a normal
\* result; the caller receives that very failure, and only after the
\* transaction has been rolled back.
C5_FailurePropagation ==
    \A e \in Execs :
        Failed(e) =>
            /\ outcome[e].st # "ok"
            /\ outcome[e].st = "err" =>
                   outcome[e] = TheFailure(e) /\ txs[e][1].state = "RolledBack"
            /\ pc[e] = "done" => outcome[e] = TheFailure(e)
            /\ txs[e][1].state # "Committed"

\* both kinds of failure have been delivered: the repository's, through
\* doTransactional, and a downstream one, through the interceptor
C5_Witness ==
    \E a, b \in Execs :
        /\ route[a] = "firstWay" /\ pc[a] = "done"
        /\ outcome[a] = Rejected(Xablau)
        /\ route[b] = "secondWay" /\ pc[b] = "done"
        /\ outcome[b] = Rejected(DownstreamError)

\* C6 (Default-handle fallback): a getManager() call made with no store
\* active returns a default manager that no other call has returned, never
\* the manager of a transaction.
C6_DefaultFallback ==
    \A e \in Execs : \A i \in 1..Len(calls[e]) :
        calls[e][i].uow[2] = 0 =>
            /\ IsDefault(calls[e][i].h)
            /\ calls[e][i].st = "none"
            /\ \A e2 \in Execs : \A j \in 1..Len(calls[e2]) :
                   <<e2, j>> # <<e, i>> => calls[e2][j].h # calls[e][i].h

\* a read-only request asked for the manager while another execution was
\* inside its transaction scope, and has completed
C6_Witness ==
    \E e \in Execs :
        /\ route[e] \in {"all", "getById"}
        /\ pc[e] = "done"
        /\ calls[e][1].conc
        /\ IsDefault(calls[e][1].h)

\* the steps a transaction may take
TxMoves == {<<"Idle", "Open">>, <<"Open", "Committed">>, <<"Open", "RolledBack">>}

TxStep ==
    \A e \in Execs :
        /\ Len(txs'[e]) >= Len(txs[e])
        /\ \A n \in 1..Len(txs'[e]) :
               IF n <= Len(txs[e])
               THEN \/ txs'[e][n].state = txs[e][n].state
                    \/ <<txs[e][n].state, txs'[e][n].state>> \in TxMoves
               ELSE txs'[e][n].state = "Idle"

TxWellFormed ==
    \A e \in Execs :
        /\ \A n \in 1..Len(txs[e]) :
               \* Open means bound: while the callback runs, the store holds
               \* the transaction's manager
               /\ (txs[e][n].state = "Open" /\ pc[e] = "callback") =>
                      getManager(scope[e], e) = TxManager(e, n)
               \* a settled invocation has ended its transaction, in one way
               /\ pc[e] \in {"return", "done"} =>
                      /\ txs[e][n].state \in {"Committed", "RolledBack"}
                      /\ Count(events[e], <<"commit">>)
                             + Count(events[e], <<"rollback">>) = 1
        \* no manager is used once its transaction has ended
        /\ \A i \in 1..Len(calls[e]) :
               calls[e][i].st \notin {"Committed", "RolledBack"}
        /\ \A i \in 1..Len(events[e]) : events[e][i][1] # "lost"

\* C7 (Transaction state machine): a transaction goes Idle -> Open (its
\* manager bound in the store) -> Committed or RolledBack, exactly one of
\* them, never leaves a terminal state, and no getManager() call or save
\* uses a manager whose transaction has already ended.
C7_StateMachine == []TxWellFormed /\ [][TxStep]_vars

\* one transaction has committed and another has rolled back, each after
\* its manager was used for saves
C7_Witness ==
    \E a, b \in Execs :
        /\ Len(txs[a]) = 1 /\ txs[a][1].state = "Committed"
        /\ Len(txs[b]) = 1 /\ txs[b][1].state = "RolledBack"
        /\ txs[a][1].writes # {} /\ txs[b][1].writes # {}
        /\ pc[a] = "done" /\ pc[b] = "done"

\* C8 (Interceptor path ordering): in doTransactionalCallHandler the stream
\* of next.handle() is awaited to its end inside the store before the
\* transaction is ended: the transaction is never committed while the route
\* handler is still running, and a failure anywhere in the stream, also after
\* the handler has returned, ends in rollback with nothing committed.
C8_InterceptorOrdering ==
    \A e \in Execs :
        route[e] = "secondWay" =>
            /\ pc[e] \in {"commitTransaction", "rollbackTransaction", "return", "done"} =>
                   svc[e] = "end" /\ work[e].st # "pending"
            /\ txs[e][1].state = "Committed" =>
                   /\ work[e].st = "ok"
                   /\ next[e] \in {"handler", "empty"}
            /\ (svc[e] = "createOrder" \/ pc[e] = "callback") =>
                   txs[e][1].state = "Open" /\ Len(scope[e]) = 1
            /\ (pc[e] = "done" /\ Failed(e)) =>
                   txs[e][1].state = "RolledBack" /\ CommittedOf(e, 1) = {}

\* behind the interceptor the handler returned an order, a later stage of
\* the stream failed, and the request ended rolled back
C8_Witness ==
    \E e \in Execs :
        /\ route[e] = "secondWay"
        /\ pc[e] = "done"
        /\ work[e] = Fulfilled(OrderOf(e))
        /\ next[e] = "lateError"
        /\ txs[e][1].writes # {}
        /\ txs[e][1].state = "RolledBack"

\* C9 (Scope teardown exactly once): the store entered by a doTransactional* /
\* doTransactionalCallHandler invocation is left exactly once, whether the
\* work returns, raises, the stream fails late or ends without a value: it
\* is entered while the callback runs and left, once, from then on.
C9_TeardownOnce ==
    \A e \in Execs :
        /\ Count(events[e], <<"teardown">>) <= Count(events[e], <<"scope">>)
        /\ Len(scope[e]) =
               Count(events[e], <<"scope">>) - Count(events[e], <<"teardown">>)
        /\ pc[e] = "callback" => Len(scope[e]) = 1
        /\ (route[e] \in TxRoutes /\ pc[e] \notin {"startTransaction", "callback"}) =>
               /\ Count(events[e], <<"scope">>) = 1
               /\ Count(events[e], <<"teardown">>) = 1
               /\ scope[e] = <<>>

\* one invocation ended on a stream that produced no value, another on a
\* stream that failed late; both left their store
C9_Witness ==
    \E a, b \in Execs :
        /\ pc[a] = "done" /\ next[a] = "empty"
        /\ pc[b] = "done" /\ next[b] = "lateError"
        /\ Count(events[a], <<"teardown">>) = 1
        /\ Count(events[b], <<"teardown">>) = 1

\* what the caller got and what was committed, without the request's identity
OutcomeShape(e) ==
    [st |-> outcome[e].st,
     val |-> IF outcome[e].val = OrderOf(e) THEN <<"order">> ELSE outcome[e].val]

RowsShape(e) == {<<r.kind, r.n>> : r \in CommittedOf(e, 1)}

CallsShape(e) == [i \in 1..Len(calls[e]) |-> <<calls[e][i].h[1], calls[e][i].st>>]

\* a and b run the same business logic on the same input with the same
\* failure draws, and have come equally far
SameRun(a, b) ==
    /\ route[a] = "firstWay" /\ route[b] = "secondWay"
    /\ next[b] \in {"none", "handler"}
    /\ dto[a] = dto[b]
    /\ rands[a] = rands[b]
    /\ pc[a] = pc[b] /\ svc[a] = svc[b] /\ item[a] = item[b]

\* C10 (Equivalence of the two entry points): for the same createOrder
\* input and the same failure draws, a request through doTransactional and
\* one through the interceptor and doTransactionalCallHandler go through the
\* same sequence of transaction events, commit the same rows and give the
\* caller the same outcome.
C10_EntryPointsEquivalent ==
    \A a, b \in Execs :
        SameRun(a, b) =>
            /\ events[a] = events[b]
            /\ CallsShape(a) = CallsShape(b)
            /\ txs[a][1].state = txs[b][1].state
            /\ RowsShape(a) = RowsShape(b)
            /\ OutcomeShape(a) = OutcomeShape(b)

\* both entry points have completed the same successful request
C10_Witness ==
    \E a, b \in Execs :
        /\ SameRun(a, b)
        /\ pc[a] = "done"
        /\ dto[a] >= 1
        /\ outcome[a] = Fulfilled(OrderOf(a))
        /\ outcome[b] = Fulfilled(OrderOf(b))

\* the rows the calling fn and the nested fn write
RowA(e) == Row("a", e, 0, <<e, 1>>)
RowB(e) == Row("b", e, 0, <<e, 2>>)
RowC(e) == Row("c", e, 0, <<e, 1>>)

NestedSettled(e) == nested[e].pc \in {"return", "done"}
OuterSettled(e) == route[e] = "nested" /\ pc[e] \in {"return", "done", "after"}

\* C11 (Nested transactional calls are independent): a doTransactional
\* called inside the work of another opens a second transaction and a store
\* of its own, bound to the second manager; it commits or rolls back on the
\* outcome of its own fn; a row it committed stays committed when the outer
\* work fails and is rolled back, and its failure, caught by the outer work,
\* leaves the outer transaction to commit.
C11_NestedIndependent ==
    \A e \in Execs :
        /\ nested[e].pc = "callback" =>
               /\ Len(txs[e]) = 2
               /\ txs[e][1].state = "Open" /\ txs[e][2].state = "Open"
               /\ Len(nested[e].stores) = 2
               /\ getManager(nested[e].stores, e) = <<"tx", e, 2>>
               /\ RowB(e) \in txs[e][2].writes
               /\ RowB(e) \notin txs[e][1].writes
        /\ NestedSettled(e) =>
               /\ nested[e].work.st = "ok" =>
                      txs[e][2].state = "Committed" /\ RowB(e) \in committed
               /\ nested[e].work.st = "err" =>
                      txs[e][2].state = "RolledBack" /\ RowB(e) \notin committed
        /\ (OuterSettled(e) /\ callback[e].st = "err") =>
               /\ txs[e][1].state = "RolledBack"
               /\ RowA(e) \notin committed /\ RowC(e) \notin committed
               /\ RowB(e) \in committed <=> nested[e].work.st = "ok"
        /\ (OuterSettled(e) /\ callback[e].st = "ok") =>
               /\ txs[e][1].state = "Committed"
               /\ RowA(e) \in committed /\ RowC(e) \in committed
               /\ RowB(e) \in committed <=> nested[e].work.st = "ok"

\* one caller's nested transaction committed and its outer one rolled back;
\* another's nested one failed, was caught, and its outer one committed
C11_Witness ==
    \E a, b \in Execs :
        /\ OuterSettled(a) /\ callback[a].st = "err"
        /\ nested[a].work.st = "ok" /\ RowB(a) \in committed
        /\ OuterSettled(b) /\ callback[b].st = "ok"
        /\ nested[b].result = Rejected(InnerError)
        /\ RowA(b) \in committed /\ RowB(b) \notin committed

\* C12 (No effect on the caller's scope): around a doTransactional
\* invocation getManager() resolves for the caller as before it: inside
\* another invocation's work, the outer manager before and after the nested
\* call (the nested store shadows it only for the nested work); with no
\* enclosing store, a default manager once the invocation has settled.
C12_CallerScopeUnchanged ==
    \A e \in Execs :
        /\ \A i \in 1..Len(calls[e]) :
               /\ calls[e][i].uow = <<e, 1>> =>
                      calls[e][i].h = <<"tx", e, 1>> /\ calls[e][i].st = "Open"
               /\ calls[e][i].uow = <<e, 2>> => calls[e][i].h = <<"tx", e, 2>>
               /\ calls[e][i].uow = <<e, 0>> => IsDefault(calls[e][i].h)
        /\ svc[e] \in {"a", "awaitNested", "c"} =>
               getManager(ctx[e], e) = <<"tx", e, 1>>
        /\ (NestedSettled(e) /\ pc[e] = "callback") =>
               /\ nested[e].stores = scope[e]
               /\ getManager(nested[e].stores, e) = <<"tx", e, 1>>
        /\ (route[e] = "nested" /\ pc[e] \in {"commitTransaction",
                "rollbackTransaction", "return", "done", "after"}) =>
               scope[e] = <<>>

\* the outer work asked for the manager before and after its nested call,
\* and the caller asked once the whole invocation had settled
C12_Witness ==
    \E e \in Execs :
        /\ pc[e] = "after"
        /\ Len(calls[e]) = 4
        /\ calls[e][1].uow = <<e, 1>> /\ calls[e][2].uow = <<e, 2>>
        /\ calls[e][3].uow = <<e, 1>> /\ calls[e][3].h = calls[e][1].h
        /\ calls[e][4].uow = <<e, 0>> /\ IsDefault(calls[e][4].h)

\* no manager is handed to two executions
NeverShared ==
    \A e, f \in Execs : e # f =>
        \A i \in 1..Len(calls[e]), j \in 1..Len(calls[f]) :
            calls[e][i].h # calls[f][j].h

\* C13 as stated (Exactly one ambient handle, all calls resolve to it): the
\* getManager() calls an execution makes at one point (in the same unit of
\* work, or all outside any) resolve to a single manager, shared with no
\* other execution.
C13_Original ==
    /\ \A e \in Execs : \A i, j \in 1..Len(calls[e]) :
           calls[e][i].uow = calls[e][j].uow => calls[e][i].h = calls[e][j].h
    /\ NeverShared

\* C13 (Exactly one ambient handle), amended: a store holds exactly one
\* manager; inside a unit of work every getManager() call of the execution
\* resolves to that unit's one manager; outside any, every call resolves to
\* a default manager of its own, created for that call; and no manager is
\* ever handed to two executions.
C13_OneAmbientHandle ==
    /\ \A e \in Execs :
           /\ \A k \in 1..Len(ctx[e]) :
                  Cardinality({p \in ctx[e][k] : p[1] = KEY}) = 1
           /\ \A k \in 1..Len(scope[e]) :
                  Cardinality({p \in scope[e][k] : p[1] = KEY}) = 1
           /\ \A i \in 1..Len(calls[e]) :
                  IF calls[e][i].uow[2] = 0
                  THEN /\ IsDefault(calls[e][i].h)
                       /\ \A j \in 1..Len(calls[e]) :
                              j # i => calls[e][j].h # calls[e][i].h
                  ELSE calls[e][i].h = <<"tx", e, calls[e][i].uow[2]>>
    /\ NeverShared

\* while one execution is between two calls of one unit of work, another,
\* in no unit of work, has made two calls
C13_Witness ==
    \E a, b \in Execs :
        /\ a # b
        /\ pc[a] = "callback" /\ Len(calls[a]) >= 3
        /\ calls[a][1].uow = <<a, 1>> /\ calls[a][3].uow = <<a, 1>>
        /\ pc[b] = "direct" /\ Len(calls[b]) >= 2
        /\ calls[b][1].uow = <<b, 0>> /\ calls[b][2].uow = <<b, 0>>

\* the committed rows that belong to request e
RowsOf(e) == {r \in committed : r.order = e}

\* C14 (Concurrent independent requests): whatever the interleaving of the
\* createOrder requests on the transactional routes, a request's transaction
\* holds that request's rows only, a request's rows are committed through
\* its own transaction only, and once a request has returned the committed
\* state holds exactly its order and items if it succeeded and none of its
\* rows if it failed.
C14_ConcurrentRequests ==
    \A e \in Execs :
        route[e] \in TxRoutes =>
            /\ \A n \in 1..Len(txs[e]) : \A r \in txs[e][n].writes : r.order = e
            /\ \A x \in Execs : \A n \in 1..Len(txs[x]) :
                   \A r \in txs[x][n].writes : r.order = e => x = e
            /\ RowsOf(e) # {} =>
                   /\ txs[e][1].state = "Committed"
                   /\ RowsOf(e) = txs[e][1].writes
            /\ (pc[e] = "done" /\ outcome[e].st = "ok") => RowsOf(e) = ExpectedRows(e)
            /\ (pc[e] = "done" /\ outcome[e].st = "err") => RowsOf(e) = {}

\* two requests with different payloads are inside their transactions at the
\* same time: one has written its order and its item and is to commit, the
\* other has written its order
C14_Witness ==
    \E a, b \in Execs :
        /\ a # b
        /\ route[a] \in TxRoutes /\ route[b] \in TxRoutes
        /\ dto[a] # dto[b]
        /\ txs[a][1].state = "Open" /\ txs[b][1].state = "Open"
        /\ work[a].st = "ok" /\ Cardinality(txs[a][1].writes) = dto[a] + 1
        /\ svc[b] = "createOrder" /\ txs[b][1].writes # {}

OrderRow(e) == Row("order", e, 0, <<e, 1>>)
ItemRow(e, i) == Row("item", e, i, <<e, 1>>)

\* C15 (All-or-nothing aggregate): on the transactional routes the committed
\* state never holds the order of a request without every item of that
\* request, nor one of its items without its order; a request whose
\* saveOrderItem raised has returned that error and left no row; a request
\* that succeeded has left its order and every one of its items.
C15_AllOrNothing ==
    \A e \in Execs :
        route[e] \in TxRoutes =>
            /\ OrderRow(e) \in committed =>
                   \A i \in 1..dto[e] : ItemRow(e, i) \in committed
            /\ \A i \in 1..MaxItems :
                   ItemRow(e, i) \in committed =>
                       i <= dto[e] /\ OrderRow(e) \in committed
            /\ work[e] = Rejected(Xablau) =>
                   /\ RowsOf(e) = {}
                   /\ pc[e] = "done" => outcome[e] = Rejected(Xablau)
            /\ (pc[e] = "done" /\ outcome[e].st = "ok") =>
                   /\ OrderRow(e) \in committed
                   /\ \A i \in 1..dto[e] : ItemRow(e, i) \in committed
                   /\ Cardinality(RowsOf(e)) = dto[e] + 1

\* one request has returned the error of its item save, after it had saved
\* its order; another has returned with its order and its item persisted
C15_Witness ==
    \E a, b \in Execs :
        /\ route[a] \in TxRoutes /\ pc[a] = "done"
        /\ outcome[a] = Rejected(Xablau)
        /\ OrderRow(a) \in txs[a][1].writes /\ RowsOf(a) = {}
        /\ route[b] \in TxRoutes /\ pc[b] = "done"
        /\ outcome[b].st = "ok" /\ dto[b] >= 1
        /\ OrderRow(b) \in committed /\ ItemRow(b, 1) \in committed

SaveEvents == {"write", "autocommit", "lost"}
ReadRoutes == {"all", "getById"}

\* the repository operations execution e has issued so far
Operations(e) ==
    Cardinality({i \in DOMAIN events[e] : events[e][i][1] \in SaveEvents})
        + (IF route[e] \in ReadRoutes THEN 1 ELSE 0)

\* every operation issued so far asked getManager() once for itself; the
\* read routes, which use the repository alone, start no transaction
OneHandlePerOperation ==
    \A e \in Execs :
        /\ Len(calls[e]) = Operations(e)
        /\ route[e] \in ReadRoutes =>
               /\ txs[e] = <<>>
               /\ \A i \in DOMAIN events[e] :
                      events[e][i][1] \notin {"open", "commit", "rollback"}

\* a step that issues a repository operation makes its getManager() call in
\* that same step, and the operation goes through the manager that call
\* returned; the step of a save of createOrder moves no transaction
HandleStep ==
    \A e \in Execs :
        LET new == SubSeq(events'[e], Len(events[e]) + 1, Len(events'[e]))
            saves == {i \in DOMAIN new : new[i][1] \in SaveEvents}
            reads == pc[e] = "idle" /\ pc'[e] \in {"find", "findOneOrFail"}
        IN  /\ Cardinality(saves) <= 1
            /\ (saves = {} /\ ~reads) => calls'[e] = calls[e]
            /\ reads =>
                   /\ Len(calls'[e]) = Len(calls[e]) + 1
                   /\ txs' = txs /\ committed' = committed
            /\ saves # {} =>
                   /\ Len(calls'[e]) = Len(calls[e]) + 1
                   /\ LET c == calls'[e][Len(calls'[e])]
                          ev == new[CHOOSE i \in saves : TRUE]
                          row == Row(ev[2], e, ev[3], c.uow)
                      IN  /\ ev[1] # "lost"
                          /\ ev[1] = "write" =>
                                 /\ IsTx(c.h)
                                 /\ row \in txs'[c.h[2]][c.h[3]].writes
                                 /\ row \notin txs[c.h[2]][c.h[3]].writes
                                 /\ committed' = committed
                          /\ ev[1] = "autocommit" =>
                                 /\ IsDefault(c.h)
                                 /\ \A j \in 1..Len(calls[e]) : calls[e][j].h # c.h
                                 /\ row \in committed' /\ row \notin committed
                   /\ svc[e] = "createOrder" =>
                          /\ Len(txs'[e]) = Len(txs[e])
                          /\ \A n \in 1..Len(txs[e]) :
                                 txs'[e][n].state = txs[e][n].state

\* C16 (Repository handle discipline): getAll, getById, saveOrder and
\* saveOrderItem each call getManager() in the very step that issues their
\* read or write, one call per operation and none kept from an earlier
\* operation, the operation goes through the manager that call returned, and
\* the repository opens, commits and rolls back no transaction.
C16_HandleDiscipline == []OneHandlePerOperation /\ [][HandleStep]_vars

\* a read has been answered through the manager obtained for it, and a
\* createOrder has saved its order and then its item, asking twice
C16_Witness ==
    \E a, b \in Execs :
        /\ route[a] \in ReadRoutes /\ pc[a] = "done" /\ Len(calls[a]) = 1
        /\ route[b] \in TxRoutes /\ item[b] >= 1 /\ Len(calls[b]) = 2
        /\ events[b][Len(events[b])] = <<"write", "item", 1>>

\* the rows a createOrder run outside any unit of work has saved so far
SavedDirect(e) ==
    {Row("order", e, 0, <<e, 0>>)} \cup {Row("item", e, i, <<e, 0>>) : i \in 1..item[e]}

\* C17 (Non-atomicity outside a transaction boundary): when createOrder runs
\* with no store active, no transaction exists, each save asks getManager()
\* and gets a default manager no earlier save had, each saved row is
\* committed at once, and when a later saveOrderItem raises, the order and
\* the items saved before it remain committed while the caller gets the
\* error.
C17_NonAtomicOutside ==
    \A e \in Execs :
        route[e] = "direct" =>
            /\ txs[e] = <<>>
            /\ Len(calls[e]) = item[e] + 1
            /\ \A i \in 1..Len(calls[e]) :
                   /\ calls[e][i].h = <<"def", e, i>>
                   /\ calls[e][i].uow = <<e, 0>>
            /\ RowsOf(e) = SavedDirect(e)
            /\ work[e] = Rejected(Xablau) =>
                   /\ item[e] < dto[e]
                   /\ Row("order", e, 0, <<e, 0>>) \in committed
                   /\ pc[e] = "done" => outcome[e] = Rejected(Xablau)

\* an unwrapped createOrder has returned the error of its item save and its
\* order is persisted
C17_Witness ==
    \E e \in Execs :
        /\ route[e] = "direct" /\ pc[e] = "done"
        /\ outcome[e] = Rejected(Xablau)
        /\ Row("order", e, 0, <<e, 0>>) \in committed
        /\ Cardinality(RowsOf(e)) = item[e] + 1

Terminal == {"Committed", "RolledBack"}

\* the invocation of e has returned to its caller
Terminated(e) ==
    /\ pc[e] = "done"
    /\ route[e] \in TxRoutes
    /\ txs[e][1].state \in Terminal
    /\ outcome[e].st # "pending"

\* C18 (Every transaction terminates): when the database answers and settled
\* promises are resumed, every doTransactional / doTransactionalCallHandler
\* invocation, whatever the other executions do, reaches the state where its
\* transaction is Committed or RolledBack and its caller has a result or a
\* failure; an Open transaction does not stay Open.
C18_Terminates ==
    \A e \in Execs :
        /\ (pc[e] = "startTransaction") ~> Terminated(e)
        /\ (Len(txs[e]) >= 1 /\ txs[e][1].state = "Open")
               ~> (Len(txs[e]) >= 1 /\ txs[e][1].state \in Terminal)

\* two invocations that were in flight have both terminated, one committed
\* and one rolled back
C18_Witness ==
    \E a, b \in Execs :
        /\ Terminated(a) /\ txs[a][1].state = "Committed" /\ outcome[a].st = "ok"
        /\ Terminated(b) /\ txs[b][1].state = "RolledBack" /\ outcome[b].st = "err"
        /\ route[a] = "firstWay" /\ route[b] = "secondWay"

====
